---- MODULE Spec2Model ----
(***************************************************************************)
(* Model of Draupnir's command argument parsing: the presentation type     *)
(* registry, the simple and union validators, the plain and keyword rest    *)
(* parsers and the argument list parser; and of the kick command, of        *)
(* unbanUserFromRooms and of getCommandLineOption.                          *)
(***************************************************************************)
EXTENDS Integers, Sequences, FiniteSets, TLC

(* ------------------------------ bounds -------------------------------- *)
\* longest list of read items handed to one call
MaxLen == 3
\* longest list of positional paramater descriptions
MaxParams == 2
\* most branches given to union
MaxBranches == 2
\* most registry calls in one run
MaxCalls == 3
\* most program options in one run
MaxArgs == 3

(* ------------------------------ read items ---------------------------- *)
\* A ReadItem is a string or a Keyword object; both are records here so
\* that they can live in one sequence.  JavaScript's undefined and true are
\* values of the same shape.
StringItem(text) == [kind |-> "string", text |-> text]

Keyword(designator) == [kind |-> "keyword", text |-> designator]

Undefined == [kind |-> "undefined", text |-> ""]

JSTrue == [kind |-> "true", text |-> ""]

\* the strings a reader can hand over; "" is the falsy one
Strings == {"alice", ""}

\* the designators a reader can hand over: two that descriptions declare,
\* one that no description declares, and the name of the toggle itself
Designators == {"dry-run", "room", "other", "allowOtherKeys"}

ReadItems == {StringItem(s) : s \in Strings} \cup {Keyword(d) : d \in Designators}

\* JavaScript truthiness of a read item
Truthy(item) == /\ item # Undefined
                /\ ~(item.kind = "string" /\ item.text = "")

\* item instanceof Keyword
IsKeyword(item) == item.kind = "keyword"

\* all sequences over S of length at most n
BoundedSeq(S, n) == UNION {[1..m -> S] : m \in 0..n}

(* ------------------------------ stream -------------------------------- *)
\* new ArgumentStream(readItems); position is zero based
ArgumentStream(source, start) == [source |-> source, position |-> start]

peekItem(stream) ==
    IF stream.position < Len(stream.source)
    THEN stream.source[stream.position + 1]
    ELSE Undefined

\* the stream after readItem(); the item read is peekItem of the stream before
readItem(stream) == [stream EXCEPT !.position = stream.position + 1]

(* ------------------------------ validators ---------------------------- *)
\* the predicates given to simpleTypeValidator by the two built in types
Predicate(name, item) ==
    CASE name = "Keyword" -> IsKeyword(item)
      [] name = "string"  -> item.kind = "string"
      [] OTHER            -> FALSE

PredicateNames == {"Keyword", "string"}

\* a validation result: Ok(true) or an error result
ValidationOk == [kind |-> "ok"]

ValidationErr == [kind |-> "err"]

simpleTypeValidator(name, item) ==
    IF Predicate(name, item) THEN ValidationOk ELSE ValidationErr

\* union(...predicates) applied to item; predicates are simple validators
unionAll(predicates, item) ==
    LET matches == [i \in 1..Len(predicates) |-> simpleTypeValidator(predicates[i], item)]
        oks == SelectSeq(matches, LAMBDA result : result.kind = "ok")
    IN  IF Len(oks) = Len(predicates) THEN ValidationOk ELSE ValidationErr

union(predicates, item) ==
    LET matches == [i \in 1..Len(predicates) |-> simpleTypeValidator(predicates[i], item)]
        oks == SelectSeq(matches, LAMBDA result : result.kind = "ok")
    IN  IF Len(oks) > 0 THEN ValidationOk ELSE ValidationErr

\* a PresentationType: its name and the predicate its validator wraps
PresentationType(name, predicate) == [name |-> name, validator |-> predicate]

KeywordType == PresentationType("Keyword", "Keyword")

StringType == PresentationType("string", "string")

\* paramater.acceptor.validator(item)
Validate(acceptor, item) == simpleTypeValidator(acceptor.validator, item)

(* ------------------------------ rest parsers --------------------------- *)
\* a DestructableRest: the rest items and the properties set by keywords
Destructable(items, props) == [rest |-> items, props |-> props]

NoProps == [d \in {} |-> Undefined]

\* destructable[name] = value
SetProp(props, name, value) ==
    [d \in DOMAIN props \cup {name} |-> IF d = name THEN value ELSE props[d]]

\* the result of a parseRest call, with the stream as the call left it
RestOk(destructable, stream) ==
    [kind |-> "ok", bundle |-> destructable, paramater |-> "", stream |-> stream]

RestErr(paramater, stream) ==
    [kind |-> "err", bundle |-> Destructable(<<>>, NoProps), paramater |-> paramater,
     stream |-> stream]

RestThrow(stream) ==
    [kind |-> "throw", bundle |-> Destructable(<<>>, NoProps), paramater |-> "",
     stream |-> stream]

\* the while loop of RestParser.parseRest
RECURSIVE RestParser_loop(_, _)
RestParser_loop(stream, items) ==
    IF Truthy(peekItem(stream))
    THEN RestParser_loop(readItem(stream), Append(items, peekItem(stream)))
    ELSE RestOk(Destructable(items, NoProps), stream)

RestParser_parseRest(stream) == RestParser_loop(stream, <<>>)

\* the keyword names a KeywordsDescription declares
KeywordNames == {"dry-run", "room"}

\* a KeywordsDescription: isFlag of each declared keyword, and the toggle
KeywordsDescriptions ==
    [keys : [KeywordNames -> BOOLEAN], allowOtherKeys : BOOLEAN]

\* this.description[item.designator]: a KeywordPropertyDescription, the
\* boolean stored under allowOtherKeys, or undefined
Lookup(description, designator) ==
    CASE designator = "allowOtherKeys" ->
           [tag |-> "boolean", name |-> "", isFlag |-> description.allowOtherKeys]
      [] designator \in DOMAIN description.keys ->
           [tag |-> "description", name |-> designator,
            isFlag |-> description.keys[designator]]
      [] OTHER ->
           [tag |-> "undefined", name |-> "", isFlag |-> FALSE]

\* the immediately invoked function that computes associatedProperty;
\* reading isFlag of undefined throws
associatedPropertyLax(description, itemStream) ==
    IF peekItem(itemStream) # Undefined /\ ~IsKeyword(peekItem(itemStream))
    THEN [kind |-> "ok", value |-> peekItem(itemStream), stream |-> readItem(itemStream)]
    ELSE IF description.tag = "undefined"
         THEN [kind |-> "throw", value |-> Undefined, stream |-> itemStream]
         ELSE [kind |-> "ok", value |-> JSTrue, stream |-> itemStream]

associatedProperty(description, itemStream) ==
    IF peekItem(itemStream) # Undefined /\ ~IsKeyword(peekItem(itemStream))
    THEN [kind |-> "ok", value |-> peekItem(itemStream), stream |-> readItem(itemStream)]
    ELSE IF description.tag = "undefined"
         THEN [kind |-> "throw", value |-> Undefined, stream |-> itemStream]
         ELSE IF ~description.isFlag
              THEN [kind |-> "err", value |-> Undefined, stream |-> itemStream]
              ELSE [kind |-> "ok", value |-> JSTrue, stream |-> itemStream]

\* the while loop of KeywordParser.parseRest
RECURSIVE KeywordParser_loop(_, _, _)
KeywordParser_loop(keywords, itemStream, destructable) ==
    IF peekItem(itemStream) = Undefined
    THEN RestOk(destructable, itemStream)
    ELSE LET item == peekItem(itemStream)
             afterItem == readItem(itemStream)
         IN  IF IsKeyword(item)
             THEN LET description == Lookup(keywords, item.text)
                      property == associatedProperty(description, afterItem)
                  IN  CASE description.tag = "boolean" -> RestThrow(afterItem)
                        [] description.tag # "boolean" /\ property.kind = "throw" ->
                             RestThrow(property.stream)
                        [] description.tag # "boolean" /\ property.kind = "err" ->
                             RestErr(description.name, property.stream)
                        [] description.tag = "undefined" /\ property.kind = "ok" ->
                             RestThrow(property.stream)
                        [] OTHER ->
                             KeywordParser_loop(keywords, property.stream,
                                 Destructable(destructable.rest,
                                     SetProp(destructable.props, description.name,
                                             property.value)))
             ELSE KeywordParser_loop(keywords, afterItem,
                      Destructable(Append(destructable.rest, item), destructable.props))

KeywordParser_parseRest(keywords, itemStream) ==
    KeywordParser_loop(keywords, itemStream, Destructable(<<>>, NoProps))

(* ------------------------- argument list parser ------------------------ *)
\* the names of the positional paramater descriptions, by position
ParamaterNames == <<"first", "second", "third", "fourth">>

\* the presentation types a description can name as its acceptor
Acceptors == {StringType, KeywordType}

\* a ParamaterDescription
ParamaterDescription(name, acceptor) == [name |-> name, acceptor |-> acceptor]

\* the lists of descriptions given to paramaters()
DescriptionLists ==
    UNION {{[i \in 1..n |-> ParamaterDescription(ParamaterNames[i], acceptors[i])] :
               acceptors \in [1..n -> Acceptors]} : n \in 0..MaxParams}

\* the restParser argument of paramaters(): none, a RestParser or a KeywordParser
NoKeywords == [keys |-> [k \in KeywordNames |-> FALSE], allowOtherKeys |-> FALSE]

RestParsers ==
    {[type |-> "none", description |-> NoKeywords],
     [type |-> "RestParser", description |-> NoKeywords]}
    \cup {[type |-> "KeywordParser", description |-> d] : d \in KeywordsDescriptions}

\* restParser.parseRest(stream), dispatched on the class of the parser
parseRest(restParser, stream) ==
    IF restParser.type = "KeywordParser"
    THEN KeywordParser_parseRest(restParser.description, stream)
    ELSE RestParser_parseRest(stream)

\* one pass of the for loop over descriptions: the missing check, the
\* validator call on the peeked item and the read on success
paramaterStepConsumes(paramater, itemStream) ==
    IF peekItem(itemStream) = Undefined
    THEN [kind |-> "missing", stream |-> itemStream, validated |-> FALSE]
    ELSE IF Validate(paramater.acceptor, peekItem(itemStream)).kind = "err"
         THEN [kind |-> "rejected", stream |-> readItem(itemStream), validated |-> TRUE]
         ELSE [kind |-> "ok", stream |-> readItem(itemStream), validated |-> TRUE]

paramaterStepNoMissingCheck(paramater, itemStream) ==
    IF Validate(paramater.acceptor, peekItem(itemStream)).kind = "err"
    THEN [kind |-> "rejected", stream |-> itemStream, validated |-> TRUE]
    ELSE [kind |-> "ok", stream |-> readItem(itemStream), validated |-> TRUE]

paramaterStep(paramater, itemStream) ==
    IF peekItem(itemStream) = Undefined
    THEN [kind |-> "missing", stream |-> itemStream, validated |-> FALSE]
    ELSE IF Validate(paramater.acceptor, peekItem(itemStream)).kind = "err"
         THEN [kind |-> "rejected", stream |-> itemStream, validated |-> TRUE]
         ELSE [kind |-> "ok", stream |-> readItem(itemStream), validated |-> TRUE]

\* the outcome of a parse: a CommandResult and what the call did on the way.
\* validated lists the positions whose validator ran, restInvoked tells
\* whether parseRest was called, stream is the stream as the call left it.
ParseOutcome(kind, message, paramater, immediate, hasRest, bundle, stream, validated, restInvoked) ==
    [kind |-> kind, message |-> message, paramater |-> paramater,
     immediateArguments |-> immediate, hasRest |-> hasRest, bundle |-> bundle,
     stream |-> stream, validated |-> validated, restInvoked |-> restInvoked]

EmptyBundle == Destructable(<<>>, NoProps)

\* what follows the for loop: the rest parser, if any, and the result
afterParamatersDropsError(restParser, readItems, itemStream, validated) ==
    IF restParser.type # "none"
    THEN LET result == parseRest(restParser, itemStream)
         IN  ParseOutcome("ok", "", "", readItems, TRUE, result.bundle,
                          result.stream, validated, TRUE)
    ELSE ParseOutcome("ok", "", "", readItems, FALSE, EmptyBundle, itemStream,
                      validated, FALSE)

afterParamaters(restParser, readItems, itemStream, validated) ==
    IF restParser.type # "none"
    THEN LET result == parseRest(restParser, itemStream)
         IN  IF result.kind = "ok"
             THEN ParseOutcome("ok", "", "", readItems, TRUE, result.bundle,
                               result.stream, validated, TRUE)
             ELSE ParseOutcome(result.kind, "rest", result.paramater, <<>>, FALSE,
                               EmptyBundle, result.stream, validated, TRUE)
    ELSE ParseOutcome("ok", "", "", readItems, FALSE, EmptyBundle, itemStream,
                      validated, FALSE)

\* the for loop over descriptions, from description k on
RECURSIVE paramaterLoop(_, _, _, _, _, _)
paramaterLoop(descriptions, restParser, readItems, k, itemStream, validated) ==
    IF k > Len(descriptions)
    THEN afterParamaters(restParser, readItems, itemStream, validated)
    ELSE LET step == paramaterStep(descriptions[k], itemStream)
             called == IF step.validated THEN Append(validated, k) ELSE validated
         IN  IF step.kind = "ok"
             THEN paramaterLoop(descriptions, restParser, readItems, k + 1,
                                step.stream, called)
             ELSE ParseOutcome("err", step.kind, descriptions[k].name, <<>>, FALSE,
                               EmptyBundle, step.stream, called, FALSE)

\* the function built by ArgumentListParser.makeParseFunction
parseFunction(descriptions, restParser, readItems) ==
    paramaterLoop(descriptions, restParser, readItems, 1,
                  ArgumentStream(readItems, 0), <<>>)

(* ------------------------------ registry -------------------------------- *)
\* the names presentation types are registered and looked up under
TypeNames == {"string", "room"}

\* the presentation types handed to the registry
PresentationTypes == [name : TypeNames, validator : PredicateNames]

\* PRESENTATION_TYPES after the module is loaded: the two
\* makePresentationType calls at the top level have run
LoadedTypes ==
    [n \in {"Keyword", "string"} |-> IF n = "Keyword" THEN KeywordType ELSE StringType]

\* PRESENTATION_TYPES.set(name, presentationType)
MapSet(map, name, value) ==
    [n \in DOMAIN map \cup {name} |-> IF n = name THEN value ELSE map[n]]

\* registerPresentationType: the map afterwards and whether it threw
registerOverwrites(types, name, presentationType) ==
    [types |-> MapSet(types, name, presentationType), threw |-> name \in DOMAIN types]

registerPresentationType(types, name, presentationType) ==
    IF name \in DOMAIN types
    THEN [types |-> types, threw |-> TRUE]
    ELSE [types |-> MapSet(types, name, presentationType), threw |-> FALSE]

\* findPresentationType: the entry returned, or a throw
findPresentationType(types, name) ==
    IF name \in DOMAIN types
    THEN [threw |-> FALSE, entry |-> types[name]]
    ELSE [threw |-> TRUE, entry |-> PresentationType("", "")]

(* ------------------------------ state ------------------------------------ *)
VARIABLES
    pc,                  \* "ready" before the call of a run, "done" after it
    readItems,           \* the read items of the run
    call,                \* the call made: its name and its other arguments
    outcome,             \* what the call returned or threw
    PRESENTATION_TYPES,  \* the registry map
    log,                 \* the registry calls made so far, with their results
    membership,          \* the members of each protected room and their state
    taskQueue,           \* the kick tasks pushed and not yet run
    kicked,              \* the kickUser calls made by the tasks that ran
    unbanned,            \* the unbanUser calls made
    invited,             \* the inviteUser calls made
    messages,            \* the messages logged to the management room
    args                 \* the program options of the run

parseVars == <<pc, readItems, call, outcome>>

registryVars == <<PRESENTATION_TYPES, log>>

hostVars == <<membership, taskQueue, kicked, unbanned, invited, messages, args>>

vars == <<pc, readItems, call, outcome, PRESENTATION_TYPES, log, membership,
          taskQueue, kicked, unbanned, invited, messages, args>>

\* nothing of the bot is running: no rooms, no calls made, no options
NoHost ==
    /\ membership = <<>>
    /\ taskQueue = <<>>
    /\ kicked = {}
    /\ unbanned = <<>>
    /\ invited = <<>>
    /\ messages = <<>>
    /\ args = <<>>

NoCall == [op |-> "none"]

NoOutcome == [kind |-> "none"]

\* a run of the parser: some read items, no call made yet
Init ==
    /\ pc = "ready"
    /\ readItems \in BoundedSeq(ReadItems, MaxLen)
    /\ call = NoCall
    /\ outcome = NoOutcome
    /\ PRESENTATION_TYPES = LoadedTypes
    /\ log = <<>>
    /\ NoHost

\* paramaters(descriptions, restParser).parseFunction(...readItems)
ParseFunction ==
    /\ pc = "ready"
    /\ \E descriptions \in DescriptionLists, restParser \in RestParsers :
         /\ call' = [op |-> "parseFunction", descriptions |-> descriptions,
                     restParser |-> restParser]
         /\ outcome' = parseFunction(descriptions, restParser, readItems)
    /\ pc' = "done"
    /\ UNCHANGED <<readItems, PRESENTATION_TYPES, log, hostVars>>

\* new RestParser().parseRest(stream) on a stream at any position
PlainParseRest ==
    /\ pc = "ready"
    /\ \E start \in 0..Len(readItems) :
         /\ call' = [op |-> "RestParser.parseRest", start |-> start]
         /\ outcome' = RestParser_parseRest(ArgumentStream(readItems, start))
    /\ pc' = "done"
    /\ UNCHANGED <<readItems, PRESENTATION_TYPES, log, hostVars>>

\* new KeywordParser(description).parseRest(stream) on a stream at any position
KeywordParseRest ==
    /\ pc = "ready"
    /\ \E start \in 0..Len(readItems), description \in KeywordsDescriptions :
         /\ call' = [op |-> "KeywordParser.parseRest", start |-> start,
                     description |-> description]
         /\ outcome' = KeywordParser_parseRest(description,
                                               ArgumentStream(readItems, start))
    /\ pc' = "done"
    /\ UNCHANGED <<readItems, PRESENTATION_TYPES, log, hostVars>>

\* union(...predicates)(item): the validator takes the one item of the run
UnionValidate ==
    /\ pc = "ready"
    /\ Len(readItems) = 1
    /\ \E predicates \in BoundedSeq(PredicateNames, MaxBranches) :
         /\ call' = [op |-> "union", predicates |-> predicates]
         /\ outcome' = union(predicates, readItems[1])
    /\ pc' = "done"
    /\ UNCHANGED <<readItems, PRESENTATION_TYPES, log, hostVars>>

Next == ParseFunction \/ PlainParseRest \/ KeywordParseRest \/ UnionValidate

Spec == Init /\ [][Next]_vars

\* a run of registry calls: the module is loaded, nothing is being parsed
InitRegistry ==
    /\ pc = "ready"
    /\ readItems = <<>>
    /\ call = NoCall
    /\ outcome = NoOutcome
    /\ PRESENTATION_TYPES = LoadedTypes
    /\ log = <<>>
    /\ NoHost

\* registerPresentationType(name, presentationType)
RegisterPresentationType ==
    /\ Len(log) < MaxCalls
    /\ \E name \in TypeNames, presentationType \in PresentationTypes :
         LET result == registerPresentationType(PRESENTATION_TYPES, name, presentationType)
         IN  /\ PRESENTATION_TYPES' = result.types
             /\ log' = Append(log, [op |-> "register", name |-> name,
                                    entry |-> presentationType, threw |-> result.threw])
    /\ UNCHANGED <<parseVars, hostVars>>

\* makePresentationType(description): registers under description.name
MakePresentationType ==
    /\ Len(log) < MaxCalls
    /\ \E description \in PresentationTypes :
         LET result == registerPresentationType(PRESENTATION_TYPES, description.name,
                                                description)
         IN  /\ PRESENTATION_TYPES' = result.types
             /\ log' = Append(log, [op |-> "make", name |-> description.name,
                                    entry |-> description, threw |-> result.threw])
    /\ UNCHANGED <<parseVars, hostVars>>

\* findPresentationType(name)
FindPresentationType ==
    /\ Len(log) < MaxCalls
    /\ \E name \in TypeNames \cup {"Keyword"} :
         LET result == findPresentationType(PRESENTATION_TYPES, name)
         IN  log' = Append(log, [op |-> "find", name |-> name,
                                 entry |-> result.entry, threw |-> result.threw])
    /\ UNCHANGED <<PRESENTATION_TYPES, pc, readItems, call, outcome, hostVars>>

NextRegistry == RegisterPresentationType \/ MakePresentationType \/ FindPresentationType

SpecRegistry == InitRegistry /\ [][NextRegistry]_vars

(* ------------------------------ helpers of the properties ---------------- *)
ParseDone == pc = "done" /\ call.op = "parseFunction"

PlainDone == pc = "done" /\ call.op = "RestParser.parseRest"

KeywordDone == pc = "done" /\ call.op = "KeywordParser.parseRest"

UnionDone == pc = "done" /\ call.op = "union"

\* the least element of a non-empty set of numbers
Least(S) == CHOOSE x \in S : \A y \in S : x <= y

\* the positions (one based) of the items a parseRest call starts from
Remainder(start) == (start + 1)..Len(readItems)

\* the designator at position i is declared by the description
Declared(description, i) ==
    /\ IsKeyword(readItems[i])
    /\ readItems[i].text \in DOMAIN description.keys

\* position i holds a declared flag / a declared keyword that takes a value
FlagAt(description, i) ==
    Declared(description, i) /\ description.keys[readItems[i].text]

NonFlagAt(description, i) ==
    Declared(description, i) /\ ~description.keys[readItems[i].text]

\* position i holds a designator that no keyword description is stored under
UndeclaredAt(description, i) ==
    IsKeyword(readItems[i]) /\ ~Declared(description, i)

\* no value follows position i: the items end there or a designator follows
NoValueAfter(i) == i = Len(readItems) \/ IsKeyword(readItems[i + 1])

\* the read items at the positions S, in the order of the positions
RECURSIVE ItemsAt(_)
ItemsAt(S) ==
    IF S = {} THEN <<>>
    ELSE <<readItems[Least(S)]>> \o ItemsAt(S \ {Least(S)})

\* the positions of the remainder that hold a string which is not the value
\* of a keyword that takes one
LeftOver(description, start) ==
    {i \in Remainder(start) :
        /\ ~IsKeyword(readItems[i])
        /\ ~(i - 1 \in Remainder(start) /\ NonFlagAt(description, i - 1))}

(* ------------------------------ properties -------------------------------- *)
\* C1: when parseFunction succeeds against n descriptions, immediateArguments
\* is exactly the first n read items, in order, whatever follows them.
C1_ImmediateArgumentsArePositional ==
    (ParseDone /\ outcome.kind = "ok") =>
        outcome.immediateArguments = SubSeq(readItems, 1, Len(call.descriptions))

\* C2: in KeywordParser.parseRest a flag designator records true under its
\* keyword and consumes nothing: a string right after it ends up in rest.
C2_FlagConsumesNothing ==
    (KeywordDone /\ outcome.kind = "ok") =>
        \A i \in Remainder(call.start) :
            FlagAt(call.description, i) =>
                /\ outcome.bundle.props[readItems[i].text] = JSTrue
                /\ (~NoValueAfter(i) =>
                        \E j \in 1..Len(outcome.bundle.rest) :
                            outcome.bundle.rest[j] = readItems[i + 1])

\* the first position of the remainder whose designator stops the parse: an
\* undeclared one, or one that takes a value and has none; 0 if there is none
FirstStop(description, start) ==
    LET stops == {i \in Remainder(start) :
                     \/ UndeclaredAt(description, i)
                     \/ NonFlagAt(description, i) /\ NoValueAfter(i)}
    IN  IF stops = {} THEN 0 ELSE Least(stops)

\* the last position of the remainder that holds the designator d
LastOf(d, start) ==
    CHOOSE i \in Remainder(start) :
        /\ readItems[i] = Keyword(d)
        /\ \A j \in Remainder(start) : readItems[j] = Keyword(d) => j <= i

\* C3: a keyword that takes a value and is followed by a string consumes that
\* one item as its value; followed by the end of the items or by another
\* designator it makes parseRest fail with an error bound to that keyword,
\* raised right after the designator, and no bundle is returned.
C3_NonFlagKeywordTakesOneValue ==
    KeywordDone =>
        LET stop == FirstStop(call.description, call.start)
        IN  /\ (stop # 0 /\ NonFlagAt(call.description, stop)) =>
                   outcome = RestErr(readItems[stop].text,
                                     [source |-> readItems, position |-> stop])
            /\ outcome.kind = "err" =>
                   (stop # 0 /\ NonFlagAt(call.description, stop))
            /\ outcome.kind = "ok" =>
                   \A i \in Remainder(call.start) :
                       NonFlagAt(call.description, i) =>
                           /\ ~NoValueAfter(i)
                           /\ outcome.bundle.props[readItems[i].text] =
                                  readItems[LastOf(readItems[i].text, call.start) + 1]
            /\ (outcome.kind = "ok" /\ \A i \in Remainder(call.start) :
                                          ~FlagAt(call.description, i)) =>
                   /\ outcome.bundle.rest =
                          ItemsAt(LeftOver(call.description, call.start))
                   /\ outcome.stream.position = Len(readItems)

C3_Witness ==
    /\ KeywordDone
    /\ outcome.kind = "err"
    /\ outcome.paramater = "room"
    /\ outcome.stream.position < Len(readItems)
    /\ call.start > 0

\* the first position whose item its description's validator rejects; 0 if
\* every item that has a description is accepted
FirstRejected(descriptions) ==
    LET rejected == {i \in 1..Len(descriptions) :
                        /\ i <= Len(readItems)
                        /\ ~Predicate(descriptions[i].acceptor.validator, readItems[i])}
    IN  IF rejected = {} THEN 0 ELSE Least(rejected)

\* <<1, ..., n>>
UpTo(n) == [i \in 1..n |-> i]

\* C4: if the item at position k is the first one its description rejects,
\* parseFunction fails with an error bound to description k, the item is not
\* consumed, and neither a later validator nor the rest parser is invoked.
C4_FailsAtFirstRejected ==
    ParseDone =>
        LET k == FirstRejected(call.descriptions)
        IN  k # 0 =>
              /\ outcome.kind = "err"
              /\ outcome.message = "rejected"
              /\ outcome.paramater = call.descriptions[k].name
              /\ outcome.stream = [source |-> readItems, position |-> k - 1]
              /\ outcome.validated = UpTo(k)
              /\ ~outcome.restInvoked

C4_Witness ==
    /\ ParseDone
    /\ FirstRejected(call.descriptions) = 1
    /\ Len(call.descriptions) = 2
    /\ Len(readItems) >= 2
    /\ call.restParser.type # "none"
    /\ outcome.kind = "err"

\* C5: with m read items, all accepted, and n > m descriptions, parseFunction
\* fails with an error bound to description m + 1, the first one without an
\* item, with the stream at its end, and checks no later description.
C5_FailsAtFirstMissing ==
    (ParseDone /\ FirstRejected(call.descriptions) = 0
               /\ Len(readItems) < Len(call.descriptions)) =>
        /\ outcome.kind = "err"
        /\ outcome.message = "missing"
        /\ outcome.paramater = call.descriptions[Len(readItems) + 1].name
        /\ outcome.stream = [source |-> readItems, position |-> Len(readItems)]
        /\ outcome.validated = UpTo(Len(readItems))
        /\ ~outcome.restInvoked

C5_Witness ==
    /\ ParseDone
    /\ FirstRejected(call.descriptions) = 0
    /\ Len(readItems) = 1
    /\ Len(call.descriptions) = 2
    /\ outcome.paramater = "second"

\* C6: an undeclared designator in the remainder, with allowOtherKeys false,
\* makes KeywordParser.parseRest return a failure value.
C6_UnknownKeywordFails ==
    (KeywordDone /\ ~call.description.allowOtherKeys
                 /\ \E i \in Remainder(call.start) : readItems[i] = Keyword("other")) =>
        outcome.kind = "err"

\* C7: RestParser.parseRest succeeds, its rest is every item from the
\* stream's position to the end, in order, and the stream is left exhausted.
C7_PlainRestTakesEverything ==
    PlainDone =>
        /\ outcome.kind = "ok"
        /\ outcome.bundle.rest = SubSeq(readItems, call.start + 1, Len(readItems))
        /\ outcome.stream.position = Len(readItems)

\* C8: when KeywordParser.parseRest succeeds, rest is the strings of the
\* remainder that are not the value of a keyword that takes one, in order.
C8_KeywordRestIsLeftOver ==
    (KeywordDone /\ outcome.kind = "ok") =>
        outcome.bundle.rest = ItemsAt(LeftOver(call.description, call.start))

\* C9: the validator built by union succeeds on an item exactly when at least
\* one of its branches accepts the item.
C9_UnionIsDisjunction ==
    UnionDone =>
        (outcome.kind = "ok" <=>
            \E i \in 1..Len(call.predicates) : Predicate(call.predicates[i], readItems[1]))

C9_Witness ==
    /\ UnionDone
    /\ call.predicates = <<"Keyword", "string">>
    /\ readItems[1] = StringItem("alice")
    /\ outcome.kind = "ok"

\* the log entries that are registrations (direct or by makePresentationType)
Registrations == {i \in 1..Len(log) : log[i].op \in {"register", "make"}}

\* the registrations of name among the first n log entries
RegistrationsOf(name, n) == {i \in Registrations : i <= n /\ log[i].name = name}

\* the names registered once the first n log entries are done
RegisteredAfter(n) ==
    DOMAIN LoadedTypes \cup {log[i].name : i \in {j \in Registrations : j <= n}}

\* the presentation type of the first registration of name
FirstRegistration(name, n) ==
    IF name \in DOMAIN LoadedTypes
    THEN LoadedTypes[name]
    ELSE log[Least(RegistrationsOf(name, n))].entry

\* C10: registering a name that is already present fails and leaves the
\* registry unchanged: every name stays bound to the presentation type of its
\* first registration, which is what findPresentationType returns, and no
\* other entry is added, removed or replaced.
C10_DuplicateRegistrationRejected ==
    /\ DOMAIN PRESENTATION_TYPES = RegisteredAfter(Len(log))
    /\ \A name \in DOMAIN PRESENTATION_TYPES :
           PRESENTATION_TYPES[name] = FirstRegistration(name, Len(log))
    /\ \A i \in 1..Len(log) :
           IF i \in Registrations
           THEN log[i].threw <=> log[i].name \in RegisteredAfter(i - 1)
           ELSE IF log[i].name \in RegisteredAfter(i - 1)
                THEN ~log[i].threw /\ log[i].entry = FirstRegistration(log[i].name, i - 1)
                ELSE log[i].threw

C10_Witness ==
    /\ Len(log) = 3
    /\ log[1].op = "register" /\ log[1].name = "room" /\ ~log[1].threw
    /\ log[2].op = "register" /\ log[2].name = "room" /\ log[2].threw
    /\ log[2].entry # log[1].entry
    /\ log[3].op = "find" /\ log[3].name = "room" /\ log[3].entry = log[1].entry

\* C11: no call of parseFunction or of a parseRest ends by throwing: every
\* failure is a failure value, also for an undeclared designator and for the
\* designator allowOtherKeys.
C11_NoParseThrows ==
    (ParseDone \/ PlainDone \/ KeywordDone) => outcome.kind # "throw"

\* every description has an item and accepts it
AllSatisfied(descriptions) ==
    /\ Len(descriptions) <= Len(readItems)
    /\ FirstRejected(descriptions) = 0

\* C12: once every description is satisfied, a configured rest parser is run
\* on the stream behind the last positional item and the parse fails exactly
\* when it fails, with its error, and otherwise returns its bundle as rest;
\* without a rest parser the parse succeeds, consumes nothing more and the
\* result has no rest.
C12_RestOutcomePropagated ==
    (ParseDone /\ AllSatisfied(call.descriptions)) =>
        LET n == Len(call.descriptions)
            result == parseRest(call.restParser, ArgumentStream(readItems, n))
        IN  IF call.restParser.type # "none"
            THEN /\ outcome.restInvoked
                 /\ outcome.kind = result.kind
                 /\ outcome.paramater = result.paramater
                 /\ outcome.stream = result.stream
                 /\ outcome.hasRest = (result.kind = "ok")
                 /\ outcome.bundle = result.bundle
            ELSE /\ ~outcome.restInvoked
                 /\ outcome.kind = "ok"
                 /\ ~outcome.hasRest
                 /\ outcome.stream = [source |-> readItems, position |-> n]

C12_Witness ==
    /\ ParseDone
    /\ AllSatisfied(call.descriptions)
    /\ Len(call.descriptions) = 1
    /\ call.restParser.type = "KeywordParser"
    /\ outcome.kind = "err"
    /\ outcome.paramater = "room"
    /\ outcome.stream.position = Len(readItems)

(* ------------------------------ the bot's rooms --------------------------- *)
\* strings whose characters matter are sequences of characters
UserIDs == {<<"a">>, <<"b">>}

\* the order in which a revision hands out its members
MemberOrder == <<(<<"a">>), (<<"b">>)>>

\* the rooms of the protected rooms set, in the order of allRooms
AllRooms == <<"!one", "!two">>

ProtectedRooms == {"!one", "!two"}

\* a room that resolves and is not protected
UnprotectedRoom == "!three"

\* a member's state in a room; "absent" users are not members
Memberships == [ProtectedRooms -> [UserIDs -> {"join", "ban", "absent"}]]

\* revision.members() of a protected room
members(roomMembership, room) ==
    SelectSeq(MemberOrder, LAMBDA userID : roomMembership[room][userID] # "absent")

\* string.includes(character)
Includes(string, character) == \E i \in 1..Len(string) : string[i] = character

\* new MatrixGlob(glob).test(string): * is any run of characters, ? is any one
\* character, and the whole string has to match
RECURSIVE MatrixGlob_test(_, _)
MatrixGlob_test(glob, string) ==
    IF glob = <<>> THEN string = <<>>
    ELSE IF Head(glob) = "*"
         THEN \/ MatrixGlob_test(Tail(glob), string)
              \/ string # <<>> /\ MatrixGlob_test(glob, Tail(string))
         ELSE /\ string # <<>>
              /\ Head(glob) = "?" \/ Head(glob) = Head(string)
              /\ MatrixGlob_test(Tail(glob), Tail(string))

(* ------------------------------ the kick command -------------------------- *)
\* the user argument: a user ID or a glob
UserArguments == UserIDs \cup {<<"*">>, <<"?">>, <<"a", "*">>}

\* the value of --room: absent, a reference that does not resolve, or one
\* that resolves to a room
NoRoom == [given |-> FALSE, resolves |-> FALSE, room |-> ""]

RoomKeywords ==
    {NoRoom, [given |-> TRUE, resolves |-> FALSE, room |-> ""]}
    \cup {[given |-> TRUE, resolves |-> TRUE, room |-> r] :
             r \in ProtectedRooms \cup {UnprotectedRoom}}

\* the keywords of one kick command
KickKeywords == [room : RoomKeywords, dryRun : BOOLEAN, glob : BOOLEAN]

\* addUserToKick: a Map from user ID to the list of rooms
addUserToKick(map, roomID, userID) ==
    [u \in DOMAIN map \cup {userID} |->
        IF u = userID
        THEN (IF userID \in DOMAIN map THEN Append(map[userID], roomID) ELSE <<roomID>>)
        ELSE map[u]]

NoUsersToKick == [u \in {} |-> <<>>]

\* draupnir.config.noop || keywords.getKeywordValue("dry-run", false)
isDryRunIgnoresNoop(noop, keywords) == keywords.dryRun

isDryRun(noop, keywords) == noop \/ keywords.dryRun

\* user.toString().includes("*") || user.toString().includes("?")
isGlob(user) == Includes(user, "*") \/ Includes(user, "?")

\* the rooms whose members are gone through: the revision of the resolved
\* room if the set has one, all rooms otherwise
roomsToKickWithin(keywords) ==
    IF keywords.room.given /\ keywords.room.room \in ProtectedRooms
    THEN <<keywords.room.room>>
    ELSE AllRooms

\* the body of the inner for loop: the map entry and the pushed task
kickMember(acc, room, member, kickRule, dryRun) ==
    LET listed == IF MatrixGlob_test(kickRule, member)
                  THEN [acc EXCEPT !.usersToKick = addUserToKick(@, room, member)]
                  ELSE acc
    IN  IF ~dryRun
        THEN [listed EXCEPT !.tasks = Append(@, [userID |-> member, roomID |-> room])]
        ELSE listed

\* the inner for loop, over the members of one revision
RECURSIVE kickMembers(_, _, _, _, _)
kickMembers(acc, room, roomMembers, kickRule, dryRun) ==
    IF roomMembers = <<>> THEN acc
    ELSE kickMembers(kickMember(acc, room, Head(roomMembers), kickRule, dryRun),
                     room, Tail(roomMembers), kickRule, dryRun)

\* the outer for loop, over the revisions
RECURSIVE kickRooms(_, _, _, _, _)
kickRooms(acc, roomMembership, rooms, kickRule, dryRun) ==
    IF rooms = <<>> THEN acc
    ELSE kickRooms(kickMembers(acc, Head(rooms), members(roomMembership, Head(rooms)),
                               kickRule, dryRun),
                   roomMembership, Tail(rooms), kickRule, dryRun)

\* the executor of DraupnirKickCommand: its result and the tasks it pushed
KickError(message) ==
    [kind |-> "err", message |-> message, usersToKick |-> NoUsersToKick, tasks |-> <<>>]

kickExecutor(noop, roomMembership, keywords, user) ==
    IF isGlob(user) /\ ~keywords.glob
    THEN KickError("glob")
    ELSE IF keywords.room.given /\ ~keywords.room.resolves
         THEN KickError("room")
         ELSE LET acc == kickRooms([usersToKick |-> NoUsersToKick, tasks |-> <<>>],
                                   roomMembership, roomsToKickWithin(keywords), user,
                                   isDryRun(noop, keywords))
              IN  [kind |-> "ok", message |-> "", usersToKick |-> acc.usersToKick,
                   tasks |-> acc.tasks]

\* the bot is running over some protected rooms; no command was given yet
InitRooms ==
    /\ pc = "ready"
    /\ readItems = <<>>
    /\ call = NoCall
    /\ outcome = NoOutcome
    /\ PRESENTATION_TYPES = LoadedTypes
    /\ log = <<>>
    /\ membership \in Memberships
    /\ taskQueue = <<>>
    /\ kicked = {}
    /\ unbanned = <<>>
    /\ invited = <<>>
    /\ messages = <<>>
    /\ args = <<>>

\* the kick command is given and its executor runs
KickCommand ==
    /\ pc = "ready"
    /\ \E noop \in BOOLEAN, keywords \in KickKeywords, user \in UserArguments :
         LET run == kickExecutor(noop, membership, keywords, user)
         IN  /\ call' = [op |-> "kick", noop |-> noop, keywords |-> keywords,
                         user |-> user]
             /\ outcome' = [kind |-> run.kind, message |-> run.message,
                            usersToKick |-> run.usersToKick]
             /\ taskQueue' = taskQueue \o run.tasks
    /\ pc' = "done"
    /\ UNCHANGED <<readItems, PRESENTATION_TYPES, log, membership, kicked, unbanned,
                   invited, messages, args>>

\* the task queue runs its oldest task: draupnir.client.kickUser is called
RunKickTask ==
    /\ taskQueue # <<>>
    /\ kicked' = kicked \cup {Head(taskQueue)}
    /\ taskQueue' = Tail(taskQueue)
    /\ UNCHANGED <<pc, readItems, call, outcome, PRESENTATION_TYPES, log, membership,
                   unbanned, invited, messages, args>>

NextKick == KickCommand \/ RunKickTask

SpecKick == InitRooms /\ [][NextKick]_vars

KickDone == pc = "done" /\ call.op = "kick"

\* the kick tasks pushed so far, run or not
Pushed == kicked \cup {taskQueue[i] : i \in 1..Len(taskQueue)}

\* the pairs of user and room that a UsersToKick map reports
Reported(map) ==
    UNION {{[userID |-> u, roomID |-> map[u][i]] : i \in 1..Len(map[u])} :
              u \in DOMAIN map}

\* C14: a kick task is pushed only for members whose user ID matches the
\* user argument, and in a run that kicks, the pairs of user and room kicked
\* are the pairs reported in the returned map.
C14_OnlyMatchingMembersKicked ==
    KickDone =>
        /\ \A task \in Pushed : MatrixGlob_test(call.user, task.userID)
        /\ (outcome.kind = "ok" /\ ~(call.noop \/ call.keywords.dryRun)) =>
               Pushed = Reported(outcome.usersToKick)

\* C16: with a --room that resolves, only members of that room are kicked or
\* reported, also when the protected rooms set has no revision of the room.
C16_KickScopedToRoom ==
    (KickDone /\ call.keywords.room.given /\ call.keywords.room.resolves) =>
        \A pair \in Pushed \cup Reported(outcome.usersToKick) :
            pair.roomID = call.keywords.room.room

\* the map the command is to return: for every user that is a member of a
\* room gone through and matches the user argument, those rooms in order
MatchingIn(room, userID) ==
    /\ membership[room][userID] # "absent"
    /\ MatrixGlob_test(call.user, userID)

UsersThatWouldBeKicked ==
    LET rooms == roomsToKickWithin(call.keywords)
        matching == {u \in UserIDs : \E i \in 1..Len(rooms) : MatchingIn(rooms[i], u)}
    IN  [u \in matching |-> SelectSeq(rooms, LAMBDA room : MatchingIn(room, u))]

\* C17: with --dry-run or with noop set no kick task is ever pushed, and the
\* command returns the map of the users that would be kicked; it returns an
\* error only where it does so in every run, before it looks at a room: for
\* a glob without --glob and for a --room that does not resolve.
C17_DryRunPushesNothing ==
    (KickDone /\ (call.noop \/ call.keywords.dryRun)) =>
        /\ Pushed = {}
        /\ outcome.kind = "err" <=>
               \/ isGlob(call.user) /\ ~call.keywords.glob
               \/ call.keywords.room.given /\ ~call.keywords.room.resolves
        /\ outcome.kind = "ok" => outcome.usersToKick = UsersThatWouldBeKicked

C17_Witness ==
    /\ KickDone
    /\ call.noop /\ ~call.keywords.dryRun
    /\ call.user = <<"a">>
    /\ outcome.kind = "ok"
    /\ outcome.usersToKick = [u \in {<<"a">>} |-> <<"!one", "!two">>]
    /\ membership["!one"][<<"b">>] = "join"
    /\ Pushed = {}

(* ------------------------------ unbanUserFromRooms ------------------------ *)
\* a message logged to the management room
Message(level, text, room) == [level |-> level, text |-> text, room |-> room]

\* what unbanUserFromRooms has done so far
NoUnbans ==
    [unbanned |-> <<>>, invited |-> <<>>,
     messages |-> <<Message("INFO", "Unbanning users that match glob", "")>>]

\* the body of the inner for loop for one member of one revision;
\* inviteFails are the users whose inviteUser call returns an error
unbanMember(acc, roomMembership, room, member, rule, invite, noop, inviteFails) ==
    IF roomMembership[room][member] # "ban"
    THEN acc
    ELSE IF ~MatrixGlob_test(rule, member)
         THEN acc
         ELSE LET debug == Message("DEBUG",
                               IF invite THEN "Unbanning, and re-inviting them"
                                         ELSE "Unbanning", room)
                  pair == [userID |-> member, roomID |-> room]
              IN  IF ~noop
                  THEN [unbanned |-> Append(acc.unbanned, pair),
                        invited |-> Append(acc.invited, pair),
                        messages |->
                            IF member \in inviteFails
                            THEN acc.messages \o
                                     <<debug, Message("WARN", "Failed to re-invite", room)>>
                            ELSE Append(acc.messages, debug)]
                  ELSE [acc EXCEPT !.messages =
                            @ \o <<debug, Message("WARN", "no-op mode", room)>>]

\* the inner for loop, over the members of one revision
RECURSIVE unbanMembers(_, _, _, _, _, _, _, _)
unbanMembers(acc, roomMembership, room, roomMembers, rule, invite, noop, inviteFails) ==
    IF roomMembers = <<>> THEN acc
    ELSE unbanMembers(unbanMember(acc, roomMembership, room, Head(roomMembers), rule,
                                  invite, noop, inviteFails),
                      roomMembership, room, Tail(roomMembers), rule, invite, noop,
                      inviteFails)

\* the outer for loop, over setMembership.allRooms
RECURSIVE unbanRooms(_, _, _, _, _, _, _)
unbanRooms(acc, roomMembership, rooms, rule, invite, noop, inviteFails) ==
    IF rooms = <<>> THEN acc
    ELSE unbanRooms(unbanMembers(acc, roomMembership, Head(rooms),
                                 members(roomMembership, Head(rooms)), rule, invite,
                                 noop, inviteFails),
                    roomMembership, Tail(rooms), rule, invite, noop, inviteFails)

unbanUserFromRooms(roomMembership, noop, rule, invite, inviteFails) ==
    unbanRooms(NoUnbans, roomMembership, AllRooms, rule, invite, noop, inviteFails)

\* unbanUserFromRooms(context, rule, invite) is called
UnbanUserFromRooms ==
    /\ pc = "ready"
    /\ \E noop \in BOOLEAN, invite \in BOOLEAN, rule \in UserArguments,
          inviteFails \in SUBSET UserIDs :
         LET run == unbanUserFromRooms(membership, noop, rule, invite, inviteFails)
         IN  /\ call' = [op |-> "unban", noop |-> noop, invite |-> invite,
                         rule |-> rule, inviteFails |-> inviteFails]
             /\ unbanned' = unbanned \o run.unbanned
             /\ invited' = invited \o run.invited
             /\ messages' = messages \o run.messages
    /\ pc' = "done"
    /\ outcome' = [kind |-> "ok"]
    /\ UNCHANGED <<readItems, PRESENTATION_TYPES, log, membership, taskQueue, kicked,
                   args>>

NextUnban == UnbanUserFromRooms

SpecUnban == InitRooms /\ [][NextUnban]_vars

UnbanDone == pc = "done" /\ call.op = "unban"

\* the banned members that match the rule, as pairs of user and room
BannedMatching ==
    {pair \in [userID : UserIDs, roomID : ProtectedRooms] :
        /\ membership[pair.roomID][pair.userID] = "ban"
        /\ MatrixGlob_test(call.rule, pair.userID)}

\* the elements of a sequence
Elements(sequence) == {sequence[i] : i \in 1..Len(sequence)}

\* C15: with invite false inviteUser is never called, while unbanUser is
\* called for every banned member matching the glob unless in no-op mode.
C15_InviteOnlyWhenAsked ==
    (UnbanDone /\ ~call.invite) =>
        /\ invited = <<>>
        /\ ~call.noop => Elements(unbanned) = BannedMatching

(* ------------------------------ command line options --------------------- *)
\* the program options are strings, as sequences of characters
ArgStrings ==
    {<<"-", "-", "a">>, <<"-", "-", "b">>, <<"-", "-">>, <<"-", "v">>, <<"v">>, <<>>}

\* string.startsWith(prefix)
startsWith(string, prefix) ==
    /\ Len(string) >= Len(prefix)
    /\ SubSeq(string, 1, Len(prefix)) = prefix

\* isCommandLineOptionPresent: args.includes(optionName)
isCommandLineOptionPresent(options, optionName) ==
    \E i \in 1..Len(options) : options[i] = optionName

\* args.indexOf(optionName), one based; only used when the option is present
indexOf(options, optionName) ==
    CHOOSE i \in 1..Len(options) :
        /\ options[i] = optionName
        /\ \A j \in 1..(i - 1) : options[j] # optionName

\* what getCommandLineOption returns or throws
ReturnsUndefined == [kind |-> "undefined", value |-> <<>>]

Returns(value) == [kind |-> "value", value |-> value]

ThrowsNoValue == [kind |-> "throw", value |-> <<>>]

getCommandLineOptionAnyValue(options, optionName) ==
    IF ~isCommandLineOptionPresent(options, optionName)
    THEN ReturnsUndefined
    ELSE LET optionIndex == indexOf(options, optionName)
         IN  IF optionIndex + 1 <= Len(options)
             THEN Returns(options[optionIndex + 1])
             ELSE ThrowsNoValue

getCommandLineOption(options, optionName) ==
    IF ~isCommandLineOptionPresent(options, optionName)
    THEN ReturnsUndefined
    ELSE LET optionIndex == indexOf(options, optionName)
         IN  IF /\ optionIndex + 1 <= Len(options)
                /\ ~startsWith(options[optionIndex + 1], <<"-", "-">>)
             THEN Returns(options[optionIndex + 1])
             ELSE ThrowsNoValue

\* the program was started with some options
InitCommandLine ==
    /\ pc = "ready"
    /\ readItems = <<>>
    /\ call = NoCall
    /\ outcome = NoOutcome
    /\ PRESENTATION_TYPES = LoadedTypes
    /\ log = <<>>
    /\ membership = <<>>
    /\ taskQueue = <<>>
    /\ kicked = {}
    /\ unbanned = <<>>
    /\ invited = <<>>
    /\ messages = <<>>
    /\ args \in BoundedSeq(ArgStrings, MaxArgs)

\* getCommandLineOption(args, optionName)
GetCommandLineOption ==
    /\ pc = "ready"
    /\ \E optionName \in ArgStrings :
         /\ call' = [op |-> "getCommandLineOption", optionName |-> optionName]
         /\ outcome' = getCommandLineOption(args, optionName)
    /\ pc' = "done"
    /\ UNCHANGED <<readItems, PRESENTATION_TYPES, log, hostVars>>

NextCommandLine == GetCommandLineOption

SpecCommandLine == InitCommandLine /\ [][NextCommandLine]_vars

OptionDone == pc = "done" /\ call.op = "getCommandLineOption"

\* the positions of args that hold the option asked for
Occurrences == {i \in 1..Len(args) : args[i] = call.optionName}

\* the string is the name of a "--" option
IsOptionName(string) == Len(string) >= 2 /\ string[1] = "-" /\ string[2] = "-"

\* C18: getCommandLineOption returns undefined when the option does not occur;
\* the argument after its first occurrence when there is one and it does not
\* start with "--"; and throws otherwise, so that it never returns the name
\* of another option.
C18_OptionValueOrThrow ==
    OptionDone =>
        /\ IF Occurrences = {}
           THEN outcome = ReturnsUndefined
           ELSE LET first == Least(Occurrences)
                IN  IF first < Len(args) /\ ~IsOptionName(args[first + 1])
                    THEN outcome = Returns(args[first + 1])
                    ELSE outcome = ThrowsNoValue
        /\ outcome.kind = "value" => ~IsOptionName(outcome.value)

C18_Witness ==
    /\ OptionDone
    /\ args = <<(<<"-", "-", "a">>), (<<"-", "-", "b">>), (<<"v">>)>>
    /\ call.optionName = <<"-", "-", "a">>
    /\ outcome = ThrowsNoValue

====
